---- MODULE Spec2Model ----
(***************************************************************************)
(* A model of pywinprint: printer.py (Printer / Document / Page and the    *)
(* module-level send) and driver.py (get_printer_name, main).              *)
(*                                                                         *)
(* Three specifications:                                                   *)
(*   SpecFit   Page.fit_dib as a pure function of the bitmap and paper     *)
(*             sizes, computed in IEEE-754 double arithmetic as Python     *)
(*             computes it.                                                *)
(*   Spec      one call of the module-level send of printer.py.            *)
(*   SpecMain  one run of driver.main(), which calls printer.send.         *)
(***************************************************************************)
EXTENDS Integers, Sequences, FiniteSets, TLC

(***************************************************************************)
(* Bounds of the model.                                                    *)
(***************************************************************************)
MaxBitmap == 11
MaxPaper == 15

(***************************************************************************)
(* Python floats.  fit_dib divides two ints with "/" (a correctly rounded  *)
(* double), multiplies an int by that double and truncates with int().     *)
(* A positive double is modelled exactly: value = M / 2^s with a 53 bit    *)
(* mantissa M = top * Limb^2 + mid * Limb + low, 2^52 <= M < 2^53, held in *)
(* three limbs of LimbBits bits so that no intermediate exceeds 31 bits.   *)
(***************************************************************************)
LimbBits == 18
Limb == 2^LimbBits
TopMin == 2^16
TopMax == 2^17

\* M + 1, renormalised when the mantissa reaches 2^53.
FloatSucc(x) ==
    IF x.low + 1 < Limb THEN [x EXCEPT !.low = x.low + 1]
    ELSE IF x.mid + 1 < Limb THEN [x EXCEPT !.low = 0, !.mid = x.mid + 1]
    ELSE IF x.top + 1 < TopMax THEN [x EXCEPT !.low = 0, !.mid = 0, !.top = x.top + 1]
    ELSE [s |-> x.s - 1, top |-> TopMin, mid |-> 0, low |-> 0]

\* a / b for positive ints: the double nearest to the quotient (ties to even).
TrueDiv(a, b) ==
    LET t  == CHOOSE k \in 0..26 : (a * 2^k) \div b \in TopMin..(TopMax - 1)
        n0 == a * 2^t
        r0 == n0 % b
        n1 == r0 * Limb
        r1 == n1 % b
        n2 == r1 * Limb
        r2 == n2 % b
        q  == [s |-> 2 * LimbBits + t, top |-> n0 \div b, mid |-> n1 \div b, low |-> n2 \div b]
        up == 2 * r2 > b \/ (2 * r2 = b /\ q.low % 2 = 1)
    IN  IF up THEN FloatSucc(q) ELSE q

\* x < y for positive doubles.
FloatLess(x, y) ==
    \/ x.s > y.s
    \/ /\ x.s = y.s
       /\ \/ x.top < y.top
          \/ x.top = y.top /\ x.mid < y.mid
          \/ x.top = y.top /\ x.mid = y.mid /\ x.low < y.low

\* min([x, y]): the first of the smallest.
FloatMin(x, y) == IF FloatLess(y, x) THEN y ELSE x

\* d * x for a positive int d: the exact product rounded to 53 bits (ties to even).
FloatMul(d, x) ==
    LET f2 == d * x.low
        f1 == d * x.mid + f2 \div Limb
        p0 == d * x.top + f1 \div Limb
        p1 == f1 % Limb
        p2 == f2 % Limb
        g  == CHOOSE k \in 0..14 : p0 \div 2^k \in TopMin..(TopMax - 1)
        G  == 2^g
        H  == 2^(LimbBits - g)
        q  == [s   |-> x.s - g,
               top |-> p0 \div G,
               mid |-> (p0 % G) * H + p1 \div G,
               low |-> (p1 % G) * H + p2 \div G]
        dropped == p2 % G
        up == g > 0 /\ (2 * dropped > G \/ (2 * dropped = G /\ q.low % 2 = 1))
    IN  IF up THEN FloatSucc(q) ELSE q

\* int(x) for a positive double below 2^17: truncation toward zero.
FloatToInt(x) ==
    IF x.s >= 53 THEN 0
    ELSE x.top \div 2^(x.s - 2 * LimbBits)

\* int(n / 2) for an int n: n / 2 is exact, int() truncates toward zero.
IntHalf(n) == IF n >= 0 THEN n \div 2 ELSE -((-n) \div 2)

\* max([x, y]), and a faulty fit_dib that scales by the larger of the two
\* ratios: it shows that C5 depends on the choice of the smaller.
FloatMax(x, y) == IF FloatLess(x, y) THEN y ELSE x

fit_dib_max(W, H, w, h) ==
    LET scale  == FloatMax(TrueDiv(W, w), TrueDiv(H, h))
        width  == FloatToInt(FloatMul(w, scale))
        height == FloatToInt(FloatMul(h, scale))
        x1     == IntHalf(W - width)
        y1     == IntHalf(H - height)
    IN  <<x1, y1, x1 + width, y1 + height>>

(***************************************************************************)
(* Page.fit_dib(printer, dib): paper (W, H), bitmap size (w, h), all > 0.  *)
(***************************************************************************)
fit_dib(W, H, w, h) ==
    LET scale  == FloatMin(TrueDiv(W, w), TrueDiv(H, h))
        width  == FloatToInt(FloatMul(w, scale))
        height == FloatToInt(FloatMul(h, scale))
        x1     == IntHalf(W - width)
        y1     == IntHalf(H - height)
    IN  <<x1, y1, x1 + width, y1 + height>>

(***************************************************************************)
(* The program state.                                                      *)
(*   pc           the statement about to run                               *)
(*   entry        "send" (printer.send called as a library) or "main"      *)
(*   args         the arguments of printer.send                            *)
(*   printer      the Printer object (name, paper size) once constructed   *)
(*   i            Printer.send: index of the current path                  *)
(*   items, k     Document.send: its items and the index of the current    *)
(*   dib          the bitmap handed to the current Page                    *)
(*   exc          the exception propagating, or NoExc                      *)
(*   log          every call made to the device, the converters and the    *)
(*                shell, in order, with its outcome                        *)
(*   out          the lines printed                                        *)
(*   stdin        the lines not yet read from standard input               *)
(*   PRINTERS     driver.PRINTERS, the installed printers                  *)
(*   tree         the files Path(".").rglob("*") yields                    *)
(*   answer       what input() returned at the printer prompt              *)
(*   printer_name main's printer_name                                      *)
(***************************************************************************)
VARIABLES pc, entry, args, printer, i, items, k, dib, exc, log, out,
          stdin, PRINTERS, tree, answer, printer_name

progvars == <<pc, entry, args, printer, i, items, k, dib, exc, log, out,
              stdin, PRINTERS, tree, answer, printer_name>>

VARIABLES fw, fh, fW, fH, rect, rect2

fitvars == <<fw, fh, fW, fH, rect, rect2>>

vars == <<progvars, fitvars>>

MaxPaths == 2
MaxPages == 3
MaxTree == 1
MaxPrinters == 2
MaxLine == 2

None == "None"
NoExc == "NoExc"
NoPrinter == [name |-> None, paper_width |-> 0, paper_height |-> 0]
NoDib == [size |-> <<0, 0>>, rot |-> 0]
EOF == <<"EOF">>
NoAnswer == <<"NoAnswer">>

SeqsUpTo(S, n) == UNION {[1..m -> S] : m \in 0..n}

Last(s) == s[Len(s)]

(***************************************************************************)
(* The files.  A file is its name (stem, suffix) and the bitmaps it holds: *)
(* a PDF one per page, an image exactly one.  A bitmap is its size         *)
(* <<width, height>>.                                                      *)
(***************************************************************************)
Landscape == <<2, 1>>
Portrait == <<1, 2>>

PageSize(n) == IF n % 2 = 1 THEN Portrait ELSE Landscape

Pdf(n) == [stem |-> <<"doc", n>>, suffix |-> ".pdf", pages |-> [j \in 1..n |-> PageSize(j)]]

Img(size) == [stem |-> <<"img", size>>, suffix |-> ".png", pages |-> <<size>>]

Files == {Pdf(n) : n \in 0..MaxPages} \cup {Img(Landscape), Img(Portrait)}

TreeFiles == {Pdf(2), Img(Landscape)}

\* The paper sizes GetDeviceCaps reports.
Papers == {<<3, 4>>}

AllPrinters == <<"HP1", "HP2", "HP3">>
DefaultPrinter == "HP1"

(***************************************************************************)
(* driver.py constants.                                                    *)
(***************************************************************************)
EXPECTED_PRINTER == None
PRINTABLE_EXTS == {".pdf"}
MSG == "SENT $path TO $printer"

(***************************************************************************)
(* One entry of log.  doc is the index of the path being printed (0        *)
(* outside Printer.send's loop), page the index of the item.               *)
(***************************************************************************)
Call(op, ok, doc, page, arg) ==
    [op |-> op, ok |-> ok, doc |-> doc, page |-> page, arg |-> arg]

NoArg == <<>>

\* print(Template(msg).safe_substitute(printer=..., path=..., ...)) if msg
PrintMsg(o, msg, name, path) ==
    IF msg = "" THEN o
    ELSE Append(o, [text |-> msg, printer |-> name, path |-> <<path.stem, path.suffix>>])

\* Where an exception that leaves the module-level send goes: neither send
\* nor main catches it.
Uncaught == "raised"

\* Where a normal return of the module-level send goes.
SendReturn == IF entry = "main" THEN "main.complete" ELSE "done"

(***************************************************************************)
(* Printer.__init__, run by "with Printer(printer_name) as printer".  The  *)
(* calls are made in order; the first that raises ends the constructor,    *)
(* and the with statement is never entered, so Printer.__exit__ is not     *)
(* run.  f is the index of the call that raises (Len + 1: none does).      *)
(***************************************************************************)
InitCalls(name) ==
    (IF name = "" THEN <<"GetDefaultPrinter">> ELSE <<>>)
    \o <<"CreateDC", "CreatePrinterDC", "GetDeviceCaps", "GetDeviceCaps", "GetHandleOutput">>

Printer___init__ ==
    /\ pc = "send"
    /\ LET calls == InitCalls(args.printer_name)
       IN  \E f \in 1..(Len(calls) + 1), paper \in Papers :
             /\ log' = log \o [j \in 1..(IF f <= Len(calls) THEN f ELSE Len(calls))
                                 |-> Call(calls[j], j < f, 0, 0, NoArg)]
             /\ IF f <= Len(calls)
                THEN /\ exc' = calls[f]
                     /\ pc' = Uncaught
                     /\ printer' = printer
                ELSE /\ exc' = exc
                     /\ pc' = "Printer.send"
                     /\ printer' = [name |-> IF args.printer_name = "" THEN DefaultPrinter
                                             ELSE args.printer_name,
                                    paper_width |-> paper[1],
                                    paper_height |-> paper[2]]
    /\ i' = 1
    /\ UNCHANGED <<entry, args, items, k, dib, out, stdin, PRINTERS, tree, answer,
                   printer_name, fitvars>>

(***************************************************************************)
(* Printer.__exit__: DeleteDC.  It returns None, so an exception that is   *)
(* propagating goes on; if DeleteDC itself raises, that propagates.        *)
(***************************************************************************)
Printer___exit__ ==
    /\ pc = "Printer.__exit__"
    /\ \E ok \in BOOLEAN :
         /\ log' = Append(log, Call("DeleteDC", ok, 0, 0, NoArg))
         /\ exc' = IF ok THEN exc ELSE "DeleteDC"
         /\ pc' = IF ok /\ exc = NoExc THEN SendReturn ELSE Uncaught
    /\ UNCHANGED <<entry, args, printer, i, items, k, dib, out, stdin, PRINTERS, tree,
                   answer, printer_name, fitvars>>

(***************************************************************************)
(* Printer.send: the head of "for path in paths".  In shell mode the path  *)
(* is printed here by startfile(path, "print"); in device mode             *)
(* device_print is entered.                                                *)
(***************************************************************************)
Printer_send ==
    /\ pc = "Printer.send"
    /\ IF i > Len(args.paths)
       THEN /\ pc' = "Printer.__exit__"
            /\ UNCHANGED <<i, exc, log, out>>
       ELSE IF args.shell
       THEN \E ok \in BOOLEAN :
              /\ log' = Append(log, Call("startfile", ok, i, 0, NoArg))
              /\ IF ok
                 THEN /\ out' = PrintMsg(out, args.msg, printer.name, args.paths[i])
                      /\ i' = i + 1
                      /\ pc' = "Printer.send"
                      /\ exc' = exc
                 ELSE /\ exc' = "startfile"
                      /\ pc' = "Printer.__exit__"
                      /\ UNCHANGED <<i, out>>
       ELSE /\ pc' = "Document.__enter__"
            /\ UNCHANGED <<i, exc, log, out>>
    /\ UNCHANGED <<entry, args, printer, items, k, dib, stdin, PRINTERS, tree, answer,
                   printer_name, fitvars>>

(***************************************************************************)
(* device_print: "with Document(self, path.name) as document" runs         *)
(* Document.__enter__, which issues StartDoc.  If StartDoc raises the with *)
(* body and Document.__exit__ are skipped.                                 *)
(***************************************************************************)
Document___enter__ ==
    /\ pc = "Document.__enter__"
    /\ \E ok \in BOOLEAN :
         /\ log' = Append(log, Call("StartDoc", ok, i, 0, NoArg))
         /\ exc' = IF ok THEN exc ELSE "StartDoc"
         /\ pc' = IF ok THEN "device_print" ELSE "Printer.__exit__"
    /\ UNCHANGED <<entry, args, printer, i, items, k, dib, out, stdin, PRINTERS, tree,
                   answer, printer_name, fitvars>>

(***************************************************************************)
(* device_print, the body of the with: a PDF is rasterized by              *)
(* convert_from_path and every page wrapped in a Dib before Document.send  *)
(* is called (the argument list is built first); any other file is passed  *)
(* on as a path.  PDF pages are not rotated.                               *)
(***************************************************************************)
PdfDibs(path) == [j \in 1..Len(path.pages) |-> [size |-> path.pages[j], rot |-> 0]]

device_print ==
    /\ pc = "device_print"
    /\ LET path == args.paths[i]
       IN  IF path.suffix = ".pdf"
           THEN \E ok \in BOOLEAN :
                  /\ log' = Append(log, Call("convert_from_path", ok, i, 0, NoArg))
                  /\ items' = IF ok THEN PdfDibs(path) ELSE items
                  /\ exc' = IF ok THEN exc ELSE "convert_from_path"
                  /\ pc' = IF ok THEN "Document.send" ELSE "Document.__exit__"
           ELSE /\ items' = <<path>>
                /\ pc' = "Document.send"
                /\ UNCHANGED <<exc, log>>
    /\ k' = 1
    /\ UNCHANGED <<entry, args, printer, i, dib, out, stdin, PRINTERS, tree, answer,
                   printer_name, fitvars>>

(***************************************************************************)
(* Page.get_dib(path): the image converted to RGB, rotated by 90 degrees   *)
(* if it is wider than tall (Image.rotate keeps the size of the image),    *)
(* wrapped in a Dib.                                                       *)
(***************************************************************************)
get_dib(path) ==
    LET size == path.pages[1]
    IN  [size |-> size, rot |-> IF size[1] > size[2] THEN 1 ELSE 0]

IsPath(item) == "suffix" \in DOMAIN item

(***************************************************************************)
(* Document.send: the head of "for item in items"; a path is converted by  *)
(* Page.get_dib here, then Page(self) is entered.                          *)
(***************************************************************************)
Document_send ==
    /\ pc = "Document.send"
    /\ IF k > Len(items)
       THEN /\ pc' = "Document.__exit__"
            /\ UNCHANGED <<dib, exc, log>>
       ELSE IF IsPath(items[k])
       THEN \E ok \in BOOLEAN :
              /\ log' = Append(log, Call("get_dib", ok, i, k, NoArg))
              /\ dib' = IF ok THEN get_dib(items[k]) ELSE dib
              /\ exc' = IF ok THEN exc ELSE "get_dib"
              /\ pc' = IF ok THEN "Page.__enter__" ELSE "Document.__exit__"
       ELSE /\ dib' = items[k]
            /\ pc' = "Page.__enter__"
            /\ UNCHANGED <<exc, log>>
    /\ UNCHANGED <<entry, args, printer, i, items, k, out, stdin, PRINTERS, tree, answer,
                   printer_name, fitvars>>

\* Page.__enter__: StartPage.  If it raises, Page.__exit__ is not run.
Page___enter__ ==
    /\ pc = "Page.__enter__"
    /\ \E ok \in BOOLEAN :
         /\ log' = Append(log, Call("StartPage", ok, i, k, NoArg))
         /\ exc' = IF ok THEN exc ELSE "StartPage"
         /\ pc' = IF ok THEN "Page.send" ELSE "Document.__exit__"
    /\ UNCHANGED <<entry, args, printer, i, items, k, dib, out, stdin, PRINTERS, tree,
                   answer, printer_name, fitvars>>

\* Page.send: dib.draw(handle, Page.fit_dib(printer, dib)).
Page_send ==
    /\ pc = "Page.send"
    /\ \E ok \in BOOLEAN :
         /\ log' = Append(log, Call("draw", ok, i, k,
                     <<dib, fit_dib(printer.paper_width, printer.paper_height,
                                    dib.size[1], dib.size[2])>>))
         /\ exc' = IF ok THEN exc ELSE "draw"
    /\ pc' = "Page.__exit__"
    /\ UNCHANGED <<entry, args, printer, i, items, k, dib, out, stdin, PRINTERS, tree,
                   answer, printer_name, fitvars>>

\* Two faulty variants of Page.__exit__, which show that C2 and C1 depend on
\* it: one skips EndPage when the body raised, one returns a true value and
\* so swallows the body's exception.
Page___exit___skip ==
    /\ pc = "Page.__exit__"
    /\ IF exc # NoExc
       THEN /\ pc' = "Document.__exit__"
            /\ UNCHANGED <<log, exc, k>>
       ELSE \E ok \in BOOLEAN :
              /\ log' = Append(log, Call("EndPage", ok, i, k, NoArg))
              /\ exc' = IF ok THEN exc ELSE "EndPage"
              /\ IF ok
                 THEN k' = k + 1 /\ pc' = "Document.send"
                 ELSE k' = k /\ pc' = "Document.__exit__"
    /\ UNCHANGED <<entry, args, printer, i, items, dib, out, stdin, PRINTERS, tree,
                   answer, printer_name, fitvars>>

Page___exit___suppress ==
    /\ pc = "Page.__exit__"
    /\ \E ok \in BOOLEAN :
         /\ log' = Append(log, Call("EndPage", ok, i, k, NoArg))
         /\ exc' = IF ok THEN NoExc ELSE "EndPage"
         /\ IF ok
            THEN k' = k + 1 /\ pc' = "Document.send"
            ELSE k' = k /\ pc' = "Document.__exit__"
    /\ UNCHANGED <<entry, args, printer, i, items, dib, out, stdin, PRINTERS, tree,
                   answer, printer_name, fitvars>>

(***************************************************************************)
(* Page.__exit__: EndPage, whether or not the body raised.  It returns     *)
(* None, so the body's exception goes on to Document.__exit__; without one *)
(* the loop of Document.send takes the next item.                          *)
(***************************************************************************)
Page___exit__ ==
    /\ pc = "Page.__exit__"
    /\ \E ok \in BOOLEAN :
         /\ log' = Append(log, Call("EndPage", ok, i, k, NoArg))
         /\ exc' = IF ok THEN exc ELSE "EndPage"
         /\ IF ok /\ exc = NoExc
            THEN k' = k + 1 /\ pc' = "Document.send"
            ELSE k' = k /\ pc' = "Document.__exit__"
    /\ UNCHANGED <<entry, args, printer, i, items, dib, out, stdin, PRINTERS, tree,
                   answer, printer_name, fitvars>>

\* Two faulty variants of Document.__exit__, which show that C4 and C9
\* depend on it: one forgets EndDoc, one swallows the body's exception.
Document___exit___forget ==
    /\ pc = "Document.__exit__"
    /\ IF exc = NoExc
       THEN /\ out' = PrintMsg(out, args.msg, printer.name, args.paths[i])
            /\ i' = i + 1
            /\ pc' = "Printer.send"
       ELSE /\ pc' = "Printer.__exit__"
            /\ UNCHANGED <<i, out>>
    /\ UNCHANGED <<entry, args, printer, items, k, dib, exc, log, stdin, PRINTERS, tree,
                   answer, printer_name, fitvars>>

Document___exit___suppress ==
    /\ pc = "Document.__exit__"
    /\ \E ok \in BOOLEAN :
         /\ log' = Append(log, Call("EndDoc", ok, i, 0, NoArg))
         /\ exc' = IF ok THEN NoExc ELSE "EndDoc"
         /\ IF ok
            THEN /\ out' = PrintMsg(out, args.msg, printer.name, args.paths[i])
                 /\ i' = i + 1
                 /\ pc' = "Printer.send"
            ELSE /\ pc' = "Printer.__exit__"
                 /\ UNCHANGED <<i, out>>
    /\ UNCHANGED <<entry, args, printer, items, k, dib, stdin, PRINTERS, tree, answer,
                   printer_name, fitvars>>

(***************************************************************************)
(* Document.__exit__: EndDoc, whether or not the body raised.  Without an  *)
(* exception device_print returns to Printer.send, which prints msg and    *)
(* takes the next path; with one, Printer.send is left for                 *)
(* Printer.__exit__.                                                       *)
(***************************************************************************)
Document___exit__ ==
    /\ pc = "Document.__exit__"
    /\ \E ok \in BOOLEAN :
         /\ log' = Append(log, Call("EndDoc", ok, i, 0, NoArg))
         /\ exc' = IF ok THEN exc ELSE "EndDoc"
         /\ IF ok /\ exc = NoExc
            THEN /\ out' = PrintMsg(out, args.msg, printer.name, args.paths[i])
                 /\ i' = i + 1
                 /\ pc' = "Printer.send"
            ELSE /\ pc' = "Printer.__exit__"
                 /\ UNCHANGED <<i, out>>
    /\ UNCHANGED <<entry, args, printer, items, k, dib, stdin, PRINTERS, tree, answer,
                   printer_name, fitvars>>

Next ==
    \/ Printer___init__
    \/ Printer_send
    \/ Document___enter__
    \/ device_print
    \/ Document_send
    \/ Page___enter__
    \/ Page_send
    \/ Page___exit__
    \/ Document___exit__
    \/ Printer___exit__

\* The fit_dib variables while a program specification runs.
FitIdle ==
    /\ fw = 1 /\ fh = 1 /\ fW = 1 /\ fH = 1
    /\ rect = <<>> /\ rect2 = <<>>

\* The locals of send before it runs.
Fresh ==
    /\ printer = NoPrinter
    /\ i = 0 /\ items = <<>> /\ k = 0 /\ dib = NoDib
    /\ exc = NoExc /\ log = <<>> /\ out = <<>>

\* The module-level send called directly, as a library function.
Init ==
    /\ pc = "send"
    /\ entry = "send"
    /\ args \in [paths : SeqsUpTo(Files, MaxPaths),
                 printer_name : {"", "HP2"},
                 msg : {"", MSG},
                 shell : BOOLEAN]
    /\ Fresh
    /\ stdin = <<>> /\ PRINTERS = <<>> /\ tree = <<>>
    /\ answer = NoAnswer /\ printer_name = None
    /\ FitIdle

Spec == Init /\ [][Next]_vars

(***************************************************************************)
(* int(s) for a line s, a sequence of characters: surrounding whitespace   *)
(* is dropped, one sign is allowed, and what is left must be decimal       *)
(* digits, at least one; anything else raises ValueError.  (Underscores   *)
(* between digits and non-ASCII digits are not among Chars.)               *)
(***************************************************************************)
Chars == {"0", "1", "-", "x", " "}
Digits == <<"0", "1", "2", "3", "4", "5", "6", "7", "8", "9">>

DigitValue(c) == (CHOOSE d \in 1..10 : Digits[d] = c) - 1

IsDigit(c) == \E d \in 1..10 : Digits[d] = c

RECURSIVE LStrip(_)
LStrip(s) == IF s # <<>> /\ Head(s) = " " THEN LStrip(Tail(s)) ELSE s

RECURSIVE RStrip(_)
RStrip(s) == IF s # <<>> /\ Last(s) = " " THEN RStrip(SubSeq(s, 1, Len(s) - 1)) ELSE s

RECURSIVE Decimal(_)
Decimal(s) == IF s = <<>> THEN 0 ELSE 10 * Decimal(SubSeq(s, 1, Len(s) - 1)) + DigitValue(Last(s))

ValueError == [ok |-> FALSE, val |-> 0]

int(s) ==
    LET t      == RStrip(LStrip(s))
        signed == t # <<>> /\ Head(t) \in {"-", "+"}
        body   == IF signed THEN Tail(t) ELSE t
    IN  IF body = <<>> \/ \E j \in 1..Len(body) : ~IsDigit(body[j]) THEN ValueError
        ELSE [ok |-> TRUE, val |-> IF signed /\ Head(t) = "-" THEN -Decimal(body) ELSE Decimal(body)]

\* PRINTERS[n]: a negative n counts from the end; out of range raises
\* IndexError, which get_printer_name turns into None.
Subscript(list, n) ==
    IF n \in 0..(Len(list) - 1) THEN list[n + 1]
    ELSE IF n \in (-Len(list))..(-1) THEN list[Len(list) + n + 1]
    ELSE None

InList(x, list) == \E j \in 1..Len(list) : list[j] = x

\* The menu get_printer_name prints: the printers, then QUIT, numbered from 0.
Menu(list) ==
    <<[text |-> "CHOOSE PRINTER OR QUIT"]>>
    \o [j \in 1..(Len(list) + 1) |->
          [text |-> "menu", no |-> j - 1, choice |-> (list \o <<"QUIT">>)[j]]]

(***************************************************************************)
(* get_printer_name(), called first by main.  With EXPECTED_PRINTER        *)
(* installed it is returned; otherwise the menu is printed and one line is *)
(* read: EOFError, ValueError and IndexError give None.                    *)
(***************************************************************************)
get_printer_name ==
    /\ pc = "main"
    /\ IF EXPECTED_PRINTER # None /\ InList(EXPECTED_PRINTER, PRINTERS)
       THEN /\ printer_name' = EXPECTED_PRINTER
            /\ UNCHANGED <<out, stdin, answer>>
       ELSE /\ out' = out
                      \o (IF EXPECTED_PRINTER # None
                          THEN <<[text |-> "EXPECTED PRINTER NOT FOUND"]>> ELSE <<>>)
                      \o Menu(PRINTERS)
            /\ IF stdin = <<>>
               THEN /\ answer' = EOF
                    /\ printer_name' = None
                    /\ stdin' = stdin
               ELSE /\ answer' = Head(stdin)
                    /\ stdin' = Tail(stdin)
                    /\ printer_name' = IF int(Head(stdin)).ok
                                       THEN Subscript(PRINTERS, int(Head(stdin)).val)
                                       ELSE None
    /\ pc' = "main.if"
    /\ UNCHANGED <<entry, args, printer, i, items, k, dib, exc, log, PRINTERS, tree,
                   fitvars>>

\* tuple(path for path in Path(".").rglob("*") if path.suffix in PRINTABLE_EXTS)
Printable(files) == SelectSeq(files, LAMBDA f : f.suffix \in PRINTABLE_EXTS)

\* main, printer_name truthy: send(*paths, printer_name=printer_name, msg=MSG)
main_send ==
    /\ pc = "main.if"
    /\ printer_name \notin {None, ""}
    /\ args' = [paths |-> Printable(tree), printer_name |-> printer_name,
                msg |-> MSG, shell |-> FALSE]
    /\ pc' = "send"
    /\ UNCHANGED <<entry, printer, i, items, k, dib, exc, log, out, stdin, PRINTERS, tree,
                   answer, printer_name, fitvars>>

\* main, no printer_name: print("NO PRINTER SELECTED")
main_no_printer ==
    /\ pc = "main.if"
    /\ printer_name \in {None, ""}
    /\ out' = Append(out, [text |-> "NO PRINTER SELECTED"])
    /\ pc' = "main.complete"
    /\ UNCHANGED <<entry, args, printer, i, items, k, dib, exc, log, stdin, PRINTERS, tree,
                   answer, printer_name, fitvars>>

\* main's last two lines: print("WORK COMPLETE"); input("PRESS ENTER TO QUIT\n").
\* At the end of input, input raises EOFError, which nothing catches.
main_complete ==
    /\ pc = "main.complete"
    /\ out' = out \o <<[text |-> "WORK COMPLETE"], [text |-> "PRESS ENTER TO QUIT"]>>
    /\ IF stdin = <<>>
       THEN /\ exc' = "EOFError"
            /\ pc' = Uncaught
            /\ stdin' = stdin
       ELSE /\ stdin' = Tail(stdin)
            /\ pc' = "done"
            /\ exc' = exc
    /\ UNCHANGED <<entry, args, printer, i, items, k, dib, log, PRINTERS, tree, answer,
                   printer_name, fitvars>>

NextMain ==
    \/ get_printer_name
    \/ main_send
    \/ main_no_printer
    \/ main_complete
    \/ Next

Lines == SeqsUpTo(Chars, MaxLine)

\* One line for the printer prompt, and perhaps the Enter for the last prompt.
Stdins == {<<>>} \cup {<<l>> : l \in Lines} \cup {<<l, <<>>>> : l \in Lines}

\* driver.main() run as a program.
InitMain ==
    /\ pc = "main"
    /\ entry = "main"
    /\ args = [paths |-> <<>>, printer_name |-> "", msg |-> "", shell |-> FALSE]
    /\ Fresh
    /\ stdin \in Stdins
    /\ PRINTERS \in {SubSeq(AllPrinters, 1, n) : n \in 0..MaxPrinters}
    /\ tree \in SeqsUpTo(TreeFiles, MaxTree)
    /\ answer = NoAnswer /\ printer_name = None
    /\ FitIdle

SpecMain == InitMain /\ [][NextMain]_vars

(***************************************************************************)
(* SpecFit: fit_dib applied to every bitmap and paper size within the      *)
(* bounds, then applied again to a bitmap of the fitted size.              *)
(***************************************************************************)
NoRect == <<>>
ZeroDivisionError == <<"ZeroDivisionError">>

InitFit ==
    /\ fw \in 1..MaxBitmap
    /\ fh \in 1..MaxBitmap
    /\ fW \in 1..MaxPaper
    /\ fH \in 1..MaxPaper
    /\ rect = NoRect
    /\ rect2 = NoRect
    /\ pc = "fit" /\ entry = "fit"
    /\ args = [paths |-> <<>>, printer_name |-> "", msg |-> "", shell |-> FALSE]
    /\ Fresh
    /\ stdin = <<>> /\ PRINTERS = <<>> /\ tree = <<>>
    /\ answer = NoAnswer /\ printer_name = None

\* rect = Page.fit_dib(printer, dib)
Fit ==
    /\ rect = NoRect
    /\ rect' = fit_dib(fW, fH, fw, fh)
    /\ UNCHANGED <<fw, fh, fW, fH, rect2, progvars>>

\* Page.fit_dib on a bitmap whose size is that of the fitted rectangle; a
\* zero width or height makes line 178 raise ZeroDivisionError.
Refit ==
    /\ rect # NoRect
    /\ rect2 = NoRect
    /\ LET w2 == rect[3] - rect[1]
           h2 == rect[4] - rect[2]
       IN  rect2' = IF w2 = 0 \/ h2 = 0 THEN ZeroDivisionError
                    ELSE fit_dib(fW, fH, w2, h2)
    /\ UNCHANGED <<fw, fh, fW, fH, rect, progvars>>

NextFit == Fit \/ Refit

SpecFit == InitFit /\ [][NextFit]_vars

(***************************************************************************)
(* The device as the calls in log drive it: a document is open from a      *)
(* StartDoc that succeeded until EndDoc is next issued, a page from a      *)
(* StartPage that succeeded until EndPage is next issued.                  *)
(***************************************************************************)
RECURSIVE Device(_, _)
Device(l, n) ==
    IF n = 0 THEN [docs |-> 0, pages |-> 0]
    ELSE LET d == Device(l, n - 1)
             e == l[n]
         IN  CASE e.op = "StartDoc" /\ e.ok  -> [d EXCEPT !.docs = d.docs + 1]
               [] e.op = "EndDoc"            -> [d EXCEPT !.docs = d.docs - 1]
               [] e.op = "StartPage" /\ e.ok -> [d EXCEPT !.pages = d.pages + 1]
               [] e.op = "EndPage"           -> [d EXCEPT !.pages = d.pages - 1]
               [] OTHER                      -> d

Terminated == pc \in {"done", Uncaught}

DeviceMode == entry \in {"send", "main"} /\ ~args.shell

Has(op, ok, doc) == \E n \in 1..Len(log) : log[n].op = op /\ log[n].ok = ok /\ log[n].doc = doc

Issued(op, doc) == \E n \in 1..Len(log) : log[n].op = op /\ log[n].doc = doc

Count(op) == Cardinality({n \in 1..Len(log) : log[n].op = op})

\* The StartDoc, StartPage, EndPage and EndDoc calls issued for path d, in order.
JobOps(d) ==
    LET sel == SelectSeq(log, LAMBDA e : e.doc = d
                              /\ e.op \in {"StartDoc", "StartPage", "EndPage", "EndDoc"})
    IN  [j \in 1..Len(sel) |-> sel[j].op]

\* StartDoc, then n times StartPage EndPage, then EndDoc.
Nested(n) ==
    [j \in 1..(2 * n + 2) |->
        IF j = 1 THEN "StartDoc"
        ELSE IF j = 2 * n + 2 THEN "EndDoc"
        ELSE IF j % 2 = 0 THEN "StartPage" ELSE "EndPage"]

\* Path d was converted to its bitmaps.
Yielded(d) == Has("convert_from_path", TRUE, d) \/ Has("get_dib", TRUE, d)

Failed(d) == {n \in 1..Len(log) : log[n].doc = d /\ ~log[n].ok}

\* The first call for path d that raised, when one did.
FirstFailed(d) == log[CHOOSE m \in Failed(d) : \A o \in Failed(d) : m <= o]

\* The draw of page p of path d raised, and no other call for path d did.
OnlyDrawRaised(d, p) ==
    /\ Failed(d) # {}
    /\ \A n \in Failed(d) : log[n].op = "draw" /\ log[n].page = p

Docs == 1..Len(args.paths)

\* C1, as stated: a file of N bitmaps gives StartDoc, N StartPage/EndPage
\* pairs and EndDoc, strictly nested, when nothing raises and also when the
\* draw of the 2nd page raises.
C1_NPairsAlsoWhenSecondDrawRaises ==
    \A d \in Docs :
        (DeviceMode /\ Issued("EndDoc", d) /\ Yielded(d)
           /\ (Failed(d) = {} \/ OnlyDrawRaised(d, 2)))
        => JobOps(d) = Nested(Len(args.paths[d].pages))

\* C1, amended: a file of N bitmaps gives StartDoc, N StartPage/EndPage
\* pairs and EndDoc, strictly nested, when nothing raises; when the draw of
\* page p raises (the 2nd, say), EndPage and EndDoc still fire, and the
\* device sees StartDoc, exactly p StartPage/EndPage pairs and EndDoc,
\* strictly nested: the pages after p are never started.
C1_NestedPairs ==
    \A d \in Docs :
        (DeviceMode /\ Issued("EndDoc", d) /\ Yielded(d))
        => /\ Failed(d) = {} => JobOps(d) = Nested(Len(args.paths[d].pages))
           /\ (Failed(d) # {} /\ FirstFailed(d).op = "draw")
                 => JobOps(d) = Nested(FirstFailed(d).page)

\* C1 witness: a 3-page file whose 2nd draw alone raised, printed as 2 pairs.
C1_Witness ==
    /\ DeviceMode /\ Terminated
    /\ Len(args.paths) = 1 /\ Len(args.paths[1].pages) = 3
    /\ OnlyDrawRaised(1, 2)
    /\ JobOps(1) = Nested(2)

\* C2: when send terminates, normally or by an exception, every StartPage
\* that succeeded has been followed by an EndPage for the same page and
\* every StartDoc that succeeded by an EndDoc for the same document: no
\* page and no document is open on the device.
C2_NothingLeftOpen ==
    Terminated =>
        /\ \A n \in 1..Len(log) :
              /\ (log[n].op = "StartPage" /\ log[n].ok)
                   => \E m \in (n + 1)..Len(log) :
                         /\ log[m].op = "EndPage"
                         /\ log[m].doc = log[n].doc /\ log[m].page = log[n].page
              /\ (log[n].op = "StartDoc" /\ log[n].ok)
                   => \E m \in (n + 1)..Len(log) :
                         log[m].op = "EndDoc" /\ log[m].doc = log[n].doc
        /\ Device(log, Len(log)) = [docs |-> 0, pages |-> 0]

\* C2 witness: send left by the exception of a draw in the 2nd document.
C2_Witness ==
    /\ pc = Uncaught
    /\ \E n \in 1..Len(log) : log[n].op = "draw" /\ ~log[n].ok /\ log[n].doc = 2
    /\ Has("StartPage", TRUE, 2)

\* C3: the device context CreateDC made is released by exactly one DeleteDC
\* on every way out of send.
C3_DeleteDCExactlyOnce ==
    Terminated => Count("DeleteDC") = (IF Has("CreateDC", TRUE, 0) THEN 1 ELSE 0)

\* C4: at most one document and one page are open at any time; StartDoc is
\* issued only with no document open, StartPage only with a document and no
\* page open, and a bitmap is drawn only with a page open.
\* (log grows by one device call at a time and every state is checked, so
\* the conditions on the call issued last cover every call.)
C4_OneDocumentOnePage ==
    (DeviceMode /\ log # <<>>) =>
        LET before == Device(log, Len(log) - 1)
            now    == Device(log, Len(log))
            call   == Last(log)
        IN  /\ now.docs \in {0, 1}
            /\ now.pages \in {0, 1}
            /\ now.pages = 1 => now.docs = 1
            /\ call.op = "StartDoc" => before.docs = 0 /\ before.pages = 0
            /\ call.op = "StartPage" => before.docs = 1 /\ before.pages = 0
            /\ call.op = "draw" => before.docs = 1 /\ before.pages = 1

\* C4 witness: the 2nd page of the 2nd document is drawn.
C4_Witness ==
    /\ DeviceMode
    /\ \E n \in 1..Len(log) : log[n].op = "draw" /\ log[n].doc = 2 /\ log[n].page = 2

\* The conversion of path d to bitmaps: convert_from_path for a PDF, get_dib
\* for an image.
IsConversion(e) == e.op \in {"convert_from_path", "get_dib"}

\* What C9 and its amendment share: the paths are taken in order, one
\* document per path, a page is started only after the conversion of its
\* bitmap, and a path is begun only after the EndDoc of the one before and
\* only if no call for the one before raised.
InOrder ==
    /\ \A n \in 1..(Len(log) - 1) : log[n + 1].doc = 0 \/ log[n].doc <= log[n + 1].doc
    /\ \A n \in 1..Len(log) :
          log[n].op = "StartPage" =>
              \E m \in 1..(n - 1) :
                  /\ IsConversion(log[m]) /\ log[m].ok /\ log[m].doc = log[n].doc
                  /\ log[m].op = "get_dib" => log[m].page = log[n].page
    /\ \A d \in Docs :
          /\ Cardinality({n \in 1..Len(log) : log[n].op = "StartDoc" /\ log[n].doc = d}) <= 1
          /\ (d >= 2 /\ \E n \in 1..Len(log) : log[n].doc = d)
                => Has("EndDoc", TRUE, d - 1) /\ Failed(d - 1) = {}

\* C9, as stated: each file is converted before its document is opened, so
\* a file whose conversion fails raises without a StartDoc for it.
C9_ConvertedBeforeStartDoc ==
    DeviceMode =>
        /\ InOrder
        /\ \A n \in 1..Len(log) :
              IsConversion(log[n]) =>
                  \A m \in 1..(n - 1) : ~(log[m].op = "StartDoc" /\ log[m].doc = log[n].doc)
        /\ \A d \in Docs :
              (Has("convert_from_path", FALSE, d) \/ Has("get_dib", FALSE, d))
                  => ~Issued("StartDoc", d)

\* C9, amended: the paths are taken in order; for each path the document
\* is opened first (StartDoc, once), then the file is converted to its
\* bitmaps, then each bitmap is printed as a page, then the document is
\* ended, and only then is the next path begun.  A file whose conversion
\* fails raises after the StartDoc for it: no page is started for it, its
\* EndDoc is issued, and no later path is processed.
C9_StartDocBeforeConversion ==
    DeviceMode =>
        /\ InOrder
        /\ \A n \in 1..Len(log) :
              IsConversion(log[n]) =>
                  \E m \in 1..(n - 1) :
                      log[m].op = "StartDoc" /\ log[m].ok /\ log[m].doc = log[n].doc
        /\ \A d \in Docs :
              (Has("convert_from_path", FALSE, d) \/ Has("get_dib", FALSE, d))
                  => /\ Has("StartDoc", TRUE, d)
                     /\ ~Issued("StartPage", d)
                     /\ \A n \in 1..Len(log) : log[n].doc <= d
                     /\ Terminated => Issued("EndDoc", d)

\* C9 witness: the 1st of two files failed to convert, inside its document.
C9_Witness ==
    /\ DeviceMode /\ Terminated
    /\ Len(args.paths) = 2
    /\ Has("convert_from_path", FALSE, 1)
    /\ JobOps(1) = <<"StartDoc", "EndDoc">>

\* C10: every bitmap handed to a page has been rotated once if it is wider
\* than tall and not at all otherwise.
C10_RotatedIffWider ==
    \A n \in 1..Len(log) :
        log[n].op = "draw" =>
            LET b == log[n].arg[1]
            IN  b.rot = (IF b.size[1] > b.size[2] THEN 1 ELSE 0)

(***************************************************************************)
(* driver.main                                                             *)
(***************************************************************************)
\* The line read at the prompt is the menu number of a printer.
IsPrinterNumber(a) ==
    /\ a # EOF
    /\ int(a).ok
    /\ int(a).val \in 0..(Len(PRINTERS) - 1)

Printed(text) == \E n \in 1..Len(out) : out[n].text = text

\* C8: an answer at the prompt that is not the number of a listed printer
\* gives no printer; main then does nothing with the printer, reports that
\* no printer was selected and completes normally.
C8_InvalidAnswerPrintsNothing ==
    (answer # NoAnswer /\ ~IsPrinterNumber(answer)) =>
        /\ printer_name = None
        /\ log = <<>>
        /\ pc # Uncaught
        /\ pc \in {"main.complete", "done"} => Printed("NO PRINTER SELECTED")

(***************************************************************************)
(* Page.fit_dib                                                            *)
(***************************************************************************)
\* C5: the fitted rectangle lies within the paper.
C5_WithinPaper ==
    rect # NoRect =>
        /\ 0 <= rect[1] /\ rect[1] <= rect[3] /\ rect[3] <= fW
        /\ 0 <= rect[2] /\ rect[2] <= rect[4] /\ rect[4] <= fH

\* C5 witness: a 3 x 2 bitmap fitted to 4 x 5 paper.
C5_Witness ==
    /\ fw = 3 /\ fh = 2 /\ fW = 4 /\ fH = 5
    /\ rect = <<0, 1, 4, 3>>

\* The integers nearest to n / d, for n >= 0 and d > 0: two at a tie.
Nearest(n, d) == {q \in 0..(n \div d + 1) : 2 * (IF n >= q * d THEN n - q * d ELSE q * d - n) <= d}

\* The rectangles of the specified algorithm, in exact arithmetic:
\* scale = min(W/w, H/h), the scaled sizes and the offsets rounded to nearest.
Specified(W, H, w, h) ==
    LET num == IF W * h <= H * w THEN W ELSE H
        den == IF W * h <= H * w THEN w ELSE h
    IN  UNION {UNION {{<<x1, y1, x1 + sw, y1 + sh>> :
                          x1 \in Nearest(W - sw, 2), y1 \in Nearest(H - sh, 2)} :
                      sw \in Nearest(w * num, den)} :
               sh \in Nearest(h * num, den)}

\* C6: fit_dib returns the rectangle of the specified algorithm, with
\* rounding to the nearest integer.
C6_RoundsToNearest ==
    rect # NoRect => rect \in Specified(fW, fH, fw, fh)

\* C7: fitting a bitmap of the fitted size against the same paper returns
\* the same rectangle (stated where the fitted size is a bitmap size, that
\* is where fit_dib returns a rectangle for it).
C7_Idempotent ==
    (rect2 # NoRect /\ rect2 # ZeroDivisionError) => rect2 = rect

====
